---- MODULE Spec2Model ----
(***************************************************************************)
(* Model of 10Frames (src/main.py): the run locator get_next_run_number,   *)
(* the frame extractor extract_frames and the entry routine main.          *)
(*                                                                         *)
(* Strings are sequences of one-character tokens.  Two tokens stand for    *)
(* non-ASCII characters: "ar3" is ARABIC-INDIC DIGIT THREE (a decimal      *)
(* digit for str.isdigit and int), "sup2" is SUPERSCRIPT TWO (a digit for  *)
(* str.isdigit, rejected by int with ValueError).                          *)
(*                                                                         *)
(* Three specifications share the module:                                  *)
(*   SpecLocator  one call of get_next_run_number on a bounded listing     *)
(*   SpecExtract  one call of extract_frames, statement by statement       *)
(*   SpecMain     NumProcs invocations of main on one runs directory       *)
(***************************************************************************)
EXTENDS Integers, Sequences, FiniteSets, TLC

VARIABLES
    \* ---- get_next_run_number (SpecLocator)
    listing,                 \* os.listdir(runs_dir): name -> "dir" | "file"
    video_base_name,
    containing_folder_name,
    loc_pc,                  \* "call" | "returned" | "raised"
    loc_result,              \* the value returned (0 while none)
    \* ---- extract_frames (SpecExtract)
    pc,                      \* position in extract_frames
    frame_interval,
    video_frames,            \* number of frames the decoder can deliver
    cap,                     \* "none" | "unopened" | "opened" | "released"
    total_frames,
    frame_count,
    saved_count,
    written,                 \* indices of the image files written, in order
    failed_writes,           \* indices whose cv2.imwrite did not write a file
    reported,                \* indices printed by "Error saving frame i"
    messages,                \* set of console messages other than the above
    summary,                 \* <<>> or <<frame_count, saved_count>> as printed
    loop_entered,            \* the try block of line 82 has been entered
    loop_end,                \* "none" | "eos" | "interrupt" | "error"
    \* ---- main (SpecMain)
    runs_exists,             \* os.path.exists(runs_dir)
    runs_dir,                \* content of runs_dir: name -> "dir" | "file"
    frames_dirs,             \* run directories holding extracted_frames
    mpc,                     \* position of each invocation of main
    run_number,              \* run_number of each invocation (0 while none)
    assigned,                \* history: the assignments, in order
    output_folder,           \* the directory each invocation passed to extract_frames
    overlapped,              \* history: pairs of invocations in progress at once
    found_existing           \* invocations that took the else branch of line 171

locVars  == <<listing, video_base_name, containing_folder_name, loc_pc, loc_result>>
extVars  == <<pc, frame_interval, video_frames, cap, total_frames, frame_count,
              saved_count, written, failed_writes, reported, messages, summary,
              loop_entered, loop_end>>
mainVars == <<runs_exists, runs_dir, frames_dirs, mpc, run_number, assigned,
              output_folder, overlapped, found_existing>>
vars     == <<locVars, extVars, mainVars>>

-----------------------------------------------------------------------------
(* Bounds *)
MaxSuffixLen == 2      \* length of the generated folder-name suffixes
MaxEntries   == 2      \* entries of the runs directory at the start
MaxFrames    == 5      \* frames of the video
MaxInterval  == 3      \* largest frame_interval
NumProcs     == 2      \* invocations of main
MaxInitialRun     == 2 \* largest run number present before the first invocation
MaxInitialEntries == 2 \* entries of the runs directory before the first invocation

-----------------------------------------------------------------------------
(* Strings *)
AsciiDigits == <<"0", "1", "2", "3", "4", "5", "6", "7", "8", "9">>

IsAsciiDigit(c) == \E i \in 1..10 : AsciiDigits[i] = c

AsciiValue(c) == (CHOOSE i \in 1..10 : AsciiDigits[i] = c) - 1

\* str.isdigit for one character
CharIsDigit(c) == IsAsciiDigit(c) \/ c = "ar3" \/ c = "sup2"

\* characters int() accepts as decimal digits (Unicode category Nd)
CharIsDecimal(c) == IsAsciiDigit(c) \/ c = "ar3"

DecimalValue(c) == IF c = "ar3" THEN 3 ELSE AsciiValue(c)

\* str.isdigit: non-empty and every character a digit
isdigit(s) == Len(s) > 0 /\ \A i \in 1..Len(s) : CharIsDigit(s[i])

\* int(s) succeeds (on a string that passed isdigit)
IntParses(s) == Len(s) > 0 /\ \A i \in 1..Len(s) : CharIsDecimal(s[i])

RECURSIVE IntOf(_)
IntOf(s) == IF Len(s) = 0 THEN 0
            ELSE 10 * IntOf(SubSeq(s, 1, Len(s) - 1)) + DecimalValue(s[Len(s)])

\* str(n) as used by the f-string of line 154
RECURSIVE IntToStr(_)
IntToStr(n) == IF n < 10 THEN <<AsciiDigits[n + 1]>>
               ELSE IntToStr(n \div 10) \o <<AsciiDigits[(n % 10) + 1]>>

startswith(s, p) == Len(s) >= Len(p) /\ SubSeq(s, 1, Len(p)) = p

OccursAt(s, sep, i) == i + Len(sep) - 1 <= Len(s) /\ SubSeq(s, i, i + Len(sep) - 1) = sep

\* str.split(sep) for a non-empty sep: cut at the leftmost occurrences
RECURSIVE split(_, _)
split(s, sep) ==
    IF \E i \in 1..Len(s) : OccursAt(s, sep, i)
    THEN LET i == CHOOSE j \in 1..Len(s) :
                     OccursAt(s, sep, j) /\ \A k \in 1..(j - 1) : ~OccursAt(s, sep, k)
         IN  <<SubSeq(s, 1, i - 1)>> \o split(SubSeq(s, i + Len(sep), Len(s)), sep)
    ELSE <<s>>

MaxOf(S) == CHOOSE m \in S : \A x \in S : x <= m

-----------------------------------------------------------------------------
(* get_next_run_number, lines 6-37 *)

RunPrefix(v, f) == v \o <<"_">> \o f \o <<"_", "r", "u", "n">>

IsDir(kind) == kind = "dir"

\* line 22-25
ExistingRuns(ls, run_prefix) ==
    {folder \in DOMAIN ls : IsDir(ls[folder]) /\ startswith(folder, run_prefix)}

\* the folders that pass the test of line 31
DigitRuns(ls, run_prefix) ==
    {run \in ExistingRuns(ls, run_prefix) :
        LET parts == split(run, run_prefix)
        IN  Len(parts) = 2 /\ isdigit(parts[2])}

\* int(parts[1]) of line 32 raises ValueError
NextRunRaises(ls, v, f) ==
    \E run \in DigitRuns(ls, RunPrefix(v, f)) : ~IntParses(split(run, RunPrefix(v, f))[2])

NextRunNoIncrement(ls, v, f) ==
    LET run_prefix  == RunPrefix(v, f)
        run_numbers == {IntOf(split(run, run_prefix)[2]) : run \in DigitRuns(ls, run_prefix)}
    IN  IF run_numbers # {} THEN MaxOf(run_numbers) ELSE 1

\* the value returned when nothing raises, lines 27-37
get_next_run_number(ls, v, f) ==
    LET run_prefix  == RunPrefix(v, f)
        run_numbers == {IntOf(split(run, run_prefix)[2]) : run \in DigitRuns(ls, run_prefix)}
    IN  IF run_numbers # {} THEN MaxOf(run_numbers) + 1 ELSE 1

-----------------------------------------------------------------------------
(* Bounded inputs *)
SuffixChars == {"1", "9", "x", "sup2"}

RECURSIVE SeqsUpTo(_, _)
SeqsUpTo(S, n) == IF n = 0 THEN {<<>>}
                  ELSE LET shorter == SeqsUpTo(S, n - 1)
                       IN  shorter \cup {s \o <<c>> : s \in {t \in shorter : Len(t) = n - 1}, c \in S}

RECURSIVE SubsetsUpTo(_, _)
SubsetsUpTo(S, n) == IF n = 0 THEN {{}}
                     ELSE LET smaller == SubsetsUpTo(S, n - 1)
                          IN  smaller \cup {T \cup {x} : T \in smaller, x \in S}

\* folder names tried against the prefix p: p followed by every short suffix,
\* p followed by a non-ASCII decimal digit, p twice, p not at the start,
\* and a name that stops short of p
CandidateNames(p) ==
    {p \o s : s \in SeqsUpTo(SuffixChars, MaxSuffixLen)}
    \cup {p \o <<"ar3">>, p \o p \o <<"1">>, <<"x">> \o p \o <<"1">>,
          SubSeq(p, 1, Len(p) - 1) \o <<"1">>}

Kinds == {"dir", "file"}

Listings(p) == UNION {[N -> Kinds] : N \in SubsetsUpTo(CandidateNames(p), MaxEntries)}

VideoNames  == {<<>>, <<"v">>}
FolderNames == {<<>>, <<"f">>}

-----------------------------------------------------------------------------
(* Initial values of the three parts *)
LocatorIdle ==
    /\ listing = <<>>
    /\ video_base_name = <<>>
    /\ containing_folder_name = <<>>
    /\ loc_pc = "idle"
    /\ loc_result = 0

ExtractStart ==
    /\ cap = "none"
    /\ total_frames = 0
    /\ frame_count = 0
    /\ saved_count = 0
    /\ written = <<>>
    /\ failed_writes = {}
    /\ reported = {}
    /\ messages = {}
    /\ summary = <<>>
    /\ loop_entered = FALSE
    /\ loop_end = "none"

ExtractIdle ==
    /\ pc = "idle"
    /\ frame_interval = 10
    /\ video_frames = 0
    /\ ExtractStart

MainIdle ==
    /\ runs_exists = FALSE
    /\ runs_dir = <<>>
    /\ frames_dirs = {}
    /\ mpc = <<>>
    /\ run_number = <<>>
    /\ assigned = <<>>
    /\ output_folder = <<>>
    /\ overlapped = {}
    /\ found_existing = {}

-----------------------------------------------------------------------------
(* SpecLocator: one call of get_next_run_number *)
InitLocator ==
    /\ video_base_name \in VideoNames
    /\ containing_folder_name \in FolderNames
    /\ listing \in Listings(RunPrefix(video_base_name, containing_folder_name))
    /\ loc_pc = "call"
    /\ loc_result = 0
    /\ ExtractIdle
    /\ MainIdle

CallGetNextRunNumber ==
    /\ loc_pc = "call"
    /\ IF NextRunRaises(listing, video_base_name, containing_folder_name)
       THEN /\ loc_pc' = "raised"
            /\ loc_result' = loc_result
       ELSE /\ loc_pc' = "returned"
            /\ loc_result' = get_next_run_number(listing, video_base_name,
                                                 containing_folder_name)
    /\ UNCHANGED <<listing, video_base_name, containing_folder_name, extVars, mainVars>>

NextLocator == CallGetNextRunNumber

SpecLocator == InitLocator /\ [][NextLocator]_vars

-----------------------------------------------------------------------------
(* SpecExtract: one call of extract_frames, lines 40-110 *)

IsSampledOffByOne(fc, interval) == (fc + 1) % interval = 0

\* line 91
IsSampled(fc, interval) == fc % interval = 0

SavedCountByTwo(sc) == sc + 2

\* line 95
NextSavedCount(sc) == sc + 1

\* line 99
NextFrameCount(fc) == fc + 1

InitExtract ==
    /\ pc = "check_file"
    /\ frame_interval \in 0..MaxInterval
    /\ video_frames \in 0..MaxFrames
    /\ ExtractStart
    /\ LocatorIdle
    /\ MainIdle

\* the except Exception clause of lines 103-104
UnexpectedError ==
    /\ messages' = messages \cup {"unexpected"}
    /\ loop_end' = "error"
    /\ pc' = "finally"

\* lines 51-53; os.path.isfile raises TypeError on a path of a wrong type
CheckVideoFile ==
    /\ pc = "check_file"
    /\ \E outcome \in {"file", "missing", "raises"} :
          CASE outcome = "file"    -> pc' = "check_folder" /\ messages' = messages
            [] outcome = "missing" -> pc' = "returned" /\ messages' = messages \cup {"no_video"}
            [] outcome = "raises"  -> pc' = "raised" /\ messages' = messages
    /\ UNCHANGED <<frame_interval, video_frames, cap, total_frames, frame_count,
                   saved_count, written, failed_writes, reported, summary,
                   loop_entered, loop_end, locVars, mainVars>>

\* lines 56-64
CheckOutputFolder ==
    /\ pc = "check_folder"
    /\ \E outcome \in {"exists", "created", "makedirs_fails"} :
          CASE outcome = "exists"  -> pc' = "open" /\ messages' = messages \cup {"folder_exists"}
            [] outcome = "created" -> pc' = "open" /\ messages' = messages \cup {"folder_created"}
            [] outcome = "makedirs_fails" ->
                  pc' = "returned" /\ messages' = messages \cup {"folder_error"}
    /\ UNCHANGED <<frame_interval, video_frames, cap, total_frames, frame_count,
                   saved_count, written, failed_writes, reported, summary,
                   loop_entered, loop_end, locVars, mainVars>>

\* line 67
OpenCapture ==
    /\ pc = "open"
    /\ \E outcome \in {"opened", "unopened", "raises"} :
          IF outcome = "raises"
          THEN pc' = "raised" /\ cap' = cap
          ELSE pc' = "check_opened" /\ cap' = outcome
    /\ UNCHANGED <<frame_interval, video_frames, total_frames, frame_count,
                   saved_count, written, failed_writes, reported, messages, summary,
                   loop_entered, loop_end, locVars, mainVars>>

\* lines 69-74
CheckOpened ==
    /\ pc = "check_opened"
    /\ IF cap # "opened"
       THEN /\ messages' = messages \cup {"cannot_open"}
            /\ pc' = "returned"
            /\ UNCHANGED <<frame_count, saved_count>>
       ELSE /\ frame_count' = 0
            /\ saved_count' = 0
            /\ pc' = "query"
            /\ messages' = messages
    /\ UNCHANGED <<frame_interval, video_frames, cap, total_frames, written,
                   failed_writes, reported, summary, loop_entered, loop_end,
                   locVars, mainVars>>

\* lines 77-78; the reported frame count may be 0 (unknown)
QueryProperties ==
    /\ pc = "query"
    /\ \/ /\ total_frames' \in {0, video_frames}
          /\ pc' = "enter"
       \/ /\ pc' = "raised"
          /\ total_frames' = total_frames
    /\ UNCHANGED <<frame_interval, video_frames, cap, frame_count, saved_count,
                   written, failed_writes, reported, messages, summary,
                   loop_entered, loop_end, locVars, mainVars>>

\* lines 80-84: the try block is entered and the progress bar is built
EnterLoop ==
    /\ pc = "enter"
    /\ loop_entered' = TRUE
    /\ \/ /\ pc' = "read"
          /\ messages' = messages \cup {"starting"}
          /\ loop_end' = loop_end
       \/ /\ messages' = messages \cup {"starting", "unexpected"}
          /\ loop_end' = "error"
          /\ pc' = "finally"
    /\ UNCHANGED <<frame_interval, video_frames, cap, total_frames, frame_count,
                   saved_count, written, failed_writes, reported, summary,
                   locVars, mainVars>>

\* lines 86-89
ReadFrame ==
    /\ pc = "read"
    /\ \/ /\ frame_count < video_frames
          /\ pc' = "sample"
          /\ UNCHANGED <<messages, loop_end>>
       \/ /\ frame_count >= video_frames
          /\ loop_end' = "eos"
          /\ pc' = "finally"
          /\ messages' = messages
       \/ UnexpectedError
    /\ UNCHANGED <<frame_interval, video_frames, cap, total_frames, frame_count,
                   saved_count, written, failed_writes, reported, summary,
                   loop_entered, locVars, mainVars>>

\* line 91; a zero interval raises ZeroDivisionError
SampleTest ==
    /\ pc = "sample"
    /\ IF frame_interval = 0
       THEN UnexpectedError
       ELSE /\ pc' = IF IsSampled(frame_count, frame_interval) THEN "write" ELSE "advance"
            /\ UNCHANGED <<messages, loop_end>>
    /\ UNCHANGED <<frame_interval, video_frames, cap, total_frames, frame_count,
                   saved_count, written, failed_writes, reported, summary,
                   loop_entered, locVars, mainVars>>

\* lines 92-94 and 96-97: cv2.imwrite writes the file and returns True,
\* writes nothing and returns False, or raises
WriteFrame ==
    /\ pc = "write"
    /\ \E outcome \in {"true", "false", "raises"} :
          CASE outcome = "true" ->
                  /\ written' = Append(written, frame_count)
                  /\ pc' = "count"
                  /\ UNCHANGED <<failed_writes, reported>>
            [] outcome = "false" ->
                  /\ failed_writes' = failed_writes \cup {frame_count}
                  /\ pc' = "count"
                  /\ UNCHANGED <<written, reported>>
            [] outcome = "raises" ->
                  /\ failed_writes' = failed_writes \cup {frame_count}
                  /\ reported' = reported \cup {frame_count}
                  /\ pc' = "advance"
                  /\ written' = written
    /\ UNCHANGED <<frame_interval, video_frames, cap, total_frames, frame_count,
                   saved_count, messages, summary, loop_entered, loop_end,
                   locVars, mainVars>>

\* line 95
CountSaved ==
    /\ pc = "count"
    /\ saved_count' = NextSavedCount(saved_count)
    /\ pc' = "advance"
    /\ UNCHANGED <<frame_interval, video_frames, cap, total_frames, frame_count,
                   written, failed_writes, reported, messages, summary,
                   loop_entered, loop_end, locVars, mainVars>>

\* lines 99-100
Advance ==
    /\ pc = "advance"
    /\ frame_count' = NextFrameCount(frame_count)
    /\ \/ /\ pc' = "read"
          /\ UNCHANGED <<messages, loop_end>>
       \/ UnexpectedError
    /\ UNCHANGED <<frame_interval, video_frames, cap, total_frames, saved_count,
                   written, failed_writes, reported, summary, loop_entered,
                   locVars, mainVars>>

\* lines 101-102: KeyboardInterrupt between two statements of the loop
Interrupt ==
    /\ pc \in {"read", "sample", "write", "count", "advance"}
    /\ messages' = messages \cup {"interrupted"}
    /\ loop_end' = "interrupt"
    /\ pc' = "finally"
    /\ UNCHANGED <<frame_interval, video_frames, cap, total_frames, frame_count,
                   saved_count, written, failed_writes, reported, summary,
                   loop_entered, locVars, mainVars>>

FinallySkipsRelease ==
    /\ pc = "finally"
    /\ summary' = <<frame_count, saved_count>>
    /\ messages' = messages \cup {"finished"}
    /\ pc' = "returned"
    /\ UNCHANGED <<frame_interval, video_frames, cap, total_frames, frame_count,
                   saved_count, written, failed_writes, reported, loop_entered,
                   loop_end, locVars, mainVars>>

\* lines 105-110
Finally ==
    /\ pc = "finally"
    /\ cap' = "released"
    /\ summary' = <<frame_count, saved_count>>
    /\ messages' = messages \cup {"finished"}
    /\ pc' = "returned"
    /\ UNCHANGED <<frame_interval, video_frames, total_frames, frame_count,
                   saved_count, written, failed_writes, reported, loop_entered,
                   loop_end, locVars, mainVars>>

NextExtract ==
    \/ CheckVideoFile
    \/ CheckOutputFolder
    \/ OpenCapture
    \/ CheckOpened
    \/ QueryProperties
    \/ EnterLoop
    \/ ReadFrame
    \/ SampleTest
    \/ WriteFrame
    \/ CountSaved
    \/ Advance
    \/ Interrupt
    \/ Finally

SpecExtract == InitExtract /\ [][NextExtract]_vars

-----------------------------------------------------------------------------
(* SpecMain: NumProcs invocations of main, lines 113-175, on one runs_dir *)
Procs == 1..NumProcs

\* os.path.splitext(os.path.basename(video_path))[0] for the path of line 119
MainVideoBaseName == <<"Z", "o", "o", "m">>

\* os.path.basename(os.path.dirname(video_path)) for the path of line 119
MainFolderName == <<"M", "y", " ", "P", "r", "o", "j", "e", "c", "t">>

MainPrefix == RunPrefix(MainVideoBaseName, MainFolderName)

\* line 154
RunDirName(n) == MainPrefix \o IntToStr(n)

\* the entries of ls named prefix + decimal digits that carry the number n
Carriers(ls, n) ==
    {name \in DOMAIN ls :
        /\ startswith(name, MainPrefix)
        /\ IntParses(SubSeq(name, Len(MainPrefix) + 1, Len(name)))
        /\ IntOf(SubSeq(name, Len(MainPrefix) + 1, Len(name))) = n}

\* the content of runs_dir before the first invocation: runs numbered up to
\* MaxInitialRun, run 9 (the next number takes two digits) and a folder whose
\* suffix is a digit int() rejects; each a directory or a regular file
MainCandidateNames ==
    {RunDirName(n) : n \in 1..MaxInitialRun} \cup {RunDirName(9), MainPrefix \o <<"sup2">>}

MainListings ==
    UNION {[N -> Kinds] : N \in SubsetsUpTo(MainCandidateNames, MaxInitialEntries)}

InProgress(q) == mpc[q] \in {"locate", "create", "extract"}

InitMain ==
    /\ \/ runs_exists = FALSE /\ runs_dir = <<>>
       \/ runs_exists = TRUE /\ runs_dir \in MainListings
    /\ frames_dirs = {name \in DOMAIN runs_dir : IsDir(runs_dir[name])}
    /\ mpc = [p \in Procs |-> "idle"]
    /\ run_number = [p \in Procs |-> 0]
    /\ assigned = <<>>
    /\ output_folder = [p \in Procs |-> <<>>]
    /\ overlapped = {}
    /\ found_existing = {}
    /\ LocatorIdle
    /\ ExtractIdle

\* lines 126-141
EnsureRunsDir(p) ==
    /\ mpc[p] = "idle"
    /\ overlapped' = overlapped \cup {{p, q} : q \in {r \in Procs : r # p /\ InProgress(r)}}
    /\ IF runs_exists
       THEN /\ mpc' = [mpc EXCEPT ![p] = "locate"]
            /\ runs_exists' = runs_exists
       ELSE \/ /\ runs_exists' = TRUE
               /\ mpc' = [mpc EXCEPT ![p] = "locate"]
            \/ /\ mpc' = [mpc EXCEPT ![p] = "done"]
               /\ runs_exists' = runs_exists
    /\ UNCHANGED <<runs_dir, frames_dirs, run_number, assigned, output_folder,
                   found_existing, locVars, extVars>>

\* lines 143-160
LocateRun(p) ==
    /\ mpc[p] = "locate"
    /\ IF NextRunRaises(runs_dir, MainVideoBaseName, MainFolderName)
       THEN /\ mpc' = [mpc EXCEPT ![p] = "raised"]
            /\ UNCHANGED <<run_number, assigned>>
       ELSE LET n == get_next_run_number(runs_dir, MainVideoBaseName, MainFolderName)
            IN  /\ run_number' = [run_number EXCEPT ![p] = n]
                /\ assigned' = Append(assigned,
                       [proc        |-> p,
                        number      |-> n,
                        carried     |-> Carriers(runs_dir, n) # {},
                        dir_existed |-> RunDirName(n) \in DOMAIN runs_dir,
                        no_run      |-> \A name \in DOMAIN runs_dir :
                                           ~startswith(name, MainPrefix)])
                /\ mpc' = [mpc EXCEPT ![p] = "create"]
    /\ UNCHANGED <<runs_exists, runs_dir, frames_dirs, output_folder, overlapped,
                   found_existing, locVars, extVars>>

\* lines 162-172; os.makedirs fails when the run directory name is taken by a
\* file, and may fail for other reasons
CreateRunDir(p) ==
    /\ mpc[p] = "create"
    /\ LET run_dir_name == RunDirName(run_number[p])
       IN  IF run_dir_name \in frames_dirs
           THEN /\ found_existing' = found_existing \cup {p}
                /\ mpc' = [mpc EXCEPT ![p] = "extract"]
                /\ UNCHANGED <<runs_dir, frames_dirs>>
           ELSE \/ /\ ~(run_dir_name \in DOMAIN runs_dir /\ ~IsDir(runs_dir[run_dir_name]))
                   /\ runs_dir' = [name \in DOMAIN runs_dir \cup {run_dir_name} |-> 
                                      IF name = run_dir_name THEN "dir" ELSE runs_dir[name]]
                   /\ frames_dirs' = frames_dirs \cup {run_dir_name}
                   /\ mpc' = [mpc EXCEPT ![p] = "extract"]
                   /\ found_existing' = found_existing
                \/ /\ mpc' = [mpc EXCEPT ![p] = "done"]
                   /\ UNCHANGED <<runs_dir, frames_dirs, found_existing>>
    /\ UNCHANGED <<runs_exists, run_number, assigned, output_folder, overlapped,
                   locVars, extVars>>

\* line 175
ExtractIntoRunDir(p) ==
    /\ mpc[p] = "extract"
    /\ output_folder' = [output_folder EXCEPT ![p] = RunDirName(run_number[p])]
    /\ mpc' = [mpc EXCEPT ![p] = "done"]
    /\ UNCHANGED <<runs_exists, runs_dir, frames_dirs, run_number, assigned,
                   overlapped, found_existing, locVars, extVars>>

NextMain ==
    \E p \in Procs :
        \/ EnsureRunsDir(p)
        \/ LocateRun(p)
        \/ CreateRunDir(p)
        \/ ExtractIntoRunDir(p)

SpecMain == InitMain /\ [][NextMain]_vars

-----------------------------------------------------------------------------
(* Properties of get_next_run_number *)

\* the folders the contract counts: directories named exactly the prefix
\* followed by a non-empty string of decimal digits
CountedRuns(ls, p) ==
    {name \in DOMAIN ls :
        /\ IsDir(ls[name])
        /\ startswith(name, p)
        /\ IntParses(SubSeq(name, Len(p) + 1, Len(name)))}

ExpectedRunNumber(ls, p) ==
    LET S == {IntOf(SubSeq(name, Len(p) + 1, Len(name))) : name \in CountedRuns(ls, p)}
    IN  IF S = {} THEN 1 ELSE MaxOf(S) + 1

\* C1: get_next_run_number never raises on a listing and returns max(S)+1,
\* S being the numbers of the directories named prefix + decimal digits, or 1
\* when S is empty; every other entry is ignored.
C1_NextRunNumberIsMaxPlusOne ==
    loc_pc \in {"returned", "raised"} =>
        /\ loc_pc = "returned"
        /\ loc_result = ExpectedRunNumber(listing,
                            RunPrefix(video_base_name, containing_folder_name))

\* the part of C1 that holds of the code: whenever the call returns, the value
\* is the one the contract names
C1_ReturnedValueIsMaxPlusOne ==
    loc_pc = "returned" =>
        loc_result = ExpectedRunNumber(listing,
                         RunPrefix(video_base_name, containing_folder_name))

-----------------------------------------------------------------------------
(* Properties of extract_frames *)

CeilDiv(a, b) == (a + b - 1) \div b

SeqRange(s) == {s[i] : i \in 1..Len(s)}

\* C2: with no failed write and a loop that ends at end of stream, the frames
\* written are exactly the indices below F divisible by I, saved_count is
\* ceil(F / I) and frame_count is F.
C2_EndOfStreamSavesEveryIth ==
    (pc = "returned" /\ loop_end = "eos" /\ frame_interval >= 1 /\ failed_writes = {}) =>
        /\ SeqRange(written) = {k \in 0..(video_frames - 1) : k % frame_interval = 0}
        /\ Len(written) = Cardinality(SeqRange(written))
        /\ saved_count = CeilDiv(video_frames, frame_interval)
        /\ frame_count = video_frames
        /\ (frame_interval = 1 => SeqRange(written) = 0..(video_frames - 1))
        /\ (frame_interval > video_frames /\ video_frames >= 1 => written = <<0>>)

C2_Witness ==
    /\ pc = "returned" /\ loop_end = "eos" /\ failed_writes = {}
    /\ frame_interval = 2 /\ video_frames = MaxFrames
    /\ saved_count = CeilDiv(MaxFrames, 2)
    /\ Len(written) = saved_count

\* C4: once the try block is entered, extract_frames ends only by returning,
\* with the handle released and the summary of the current counters printed;
\* an interruption and an unexpected error print different messages.
C4_CleanupAfterLoop ==
    /\ (pc = "raised" => ~loop_entered)
    /\ (pc = "returned" /\ loop_entered) =>
          /\ cap = "released"
          /\ summary = <<frame_count, saved_count>>
          /\ loop_end \in {"eos", "interrupt", "error"}
          /\ (loop_end = "interrupt" =>
                "interrupted" \in messages /\ "unexpected" \notin messages)
          /\ (loop_end = "error" =>
                "unexpected" \in messages /\ "interrupted" \notin messages)
          /\ (loop_end = "eos" =>
                "unexpected" \notin messages /\ "interrupted" \notin messages)

C4_Witness ==
    /\ pc = "returned" /\ loop_end = "interrupt"
    /\ cap = "released" /\ frame_count >= 2 /\ saved_count >= 1
    /\ summary = <<frame_count, saved_count>>

\* C5: extract_frames never ends with a decoder handle it created unreleased.
C5_HandleReleasedOnEveryExit ==
    (pc \in {"returned", "raised"} /\ cap # "none") => cap = "released"

\* C6: extract_frames never raises past its own boundary.
C6_NeverRaises == pc # "raised"

\* C7: between two iterations and at the end of the call, saved_count is the
\* number of image files this call wrote.
C7_SavedCountsWrittenFiles ==
    pc \in {"read", "returned"} /\ loop_end \in {"none", "eos"} =>
        saved_count = Len(written)

\* C8: every failed write is reported with its index, the loop goes on, and at
\* end of stream frame_count is the number of frames of the video.
C8_WriteFailureReportedAndSkipped ==
    /\ failed_writes \subseteq reported
    /\ \A i \in failed_writes : pc = "read" => frame_count > i
    /\ (pc = "returned" /\ loop_end = "eos") =>
          /\ frame_count = video_frames
          /\ frame_interval >= 1 =>
                {k \in 0..(video_frames - 1) : k % frame_interval = 0}
                    = SeqRange(written) \cup failed_writes

\* the part of C8 that holds of the code
C8_LoopSurvivesWriteFailure ==
    /\ \A i \in failed_writes : pc = "read" => frame_count > i
    /\ (pc = "returned" /\ loop_end = "eos") =>
          /\ frame_count = video_frames
          /\ frame_interval >= 1 =>
                {k \in 0..(video_frames - 1) : k % frame_interval = 0}
                    = SeqRange(written) \cup failed_writes

\* C10: for I >= 1, always: every written index is a multiple of I not above
\* frame_count, the indices were written in increasing order, and saved_count
\* is at most floor(frame_count / I) + 1; after end of stream saved_count is
\* at most ceil(frame_count / I) and every written index is below frame_count.
C10_LoopInvariant ==
    frame_interval >= 1 =>
        /\ \A i \in 1..Len(written) :
              written[i] % frame_interval = 0 /\ written[i] <= frame_count
        /\ \A i, j \in 1..Len(written) : i < j => written[i] < written[j]
        /\ saved_count <= (frame_count \div frame_interval) + 1
        /\ loop_end = "eos" =>
              /\ saved_count <= CeilDiv(frame_count, frame_interval)
              /\ \A i \in 1..Len(written) : written[i] < frame_count

C10_Witness ==
    /\ pc = "returned" /\ loop_end = "interrupt" /\ frame_interval = 2
    /\ Len(written) >= 2
    /\ written[Len(written)] = frame_count
    /\ saved_count = (frame_count \div frame_interval) + 1
-----------------------------------------------------------------------------
(* Properties of main *)

\* C3: when no two invocations overlap, the run numbers assigned are strictly
\* increasing, the first is 1 when no run exists, and no invocation is
\* assigned a number an entry of the runs directory already carries, nor a
\* run directory name already present.
C3_RunNumbersFreshAndIncreasing ==
    overlapped = {} =>
        /\ \A i, j \in 1..Len(assigned) : i < j => assigned[i].number < assigned[j].number
        /\ (Len(assigned) >= 1 /\ assigned[1].no_run) => assigned[1].number = 1
        /\ \A i \in 1..Len(assigned) : ~assigned[i].carried /\ ~assigned[i].dir_existed

\* C9: two invocations extract into the same run directory only if they
\* overlapped; overlapping invocations can obtain the same run number and
\* both extract into the same directory, the later finding it existing.
C9_SameRunDirOnlyWhenOverlapping ==
    \A p, q \in Procs :
        (p # q /\ output_folder[p] # <<>> /\ output_folder[p] = output_folder[q])
            => {p, q} \in overlapped

C9_Witness ==
    \E p, q \in Procs :
        /\ p # q
        /\ run_number[p] = run_number[q] /\ run_number[p] >= 1
        /\ output_folder[p] # <<>> /\ output_folder[p] = output_folder[q]
        /\ q \in found_existing /\ p \notin found_existing
        /\ {p, q} \in overlapped
====
